---- MODULE Spec2Model ----
(***************************************************************************)
(* Model of worldgen/util/blender.py: the scoped save/restore helpers      *)
(* (SelectObjects, ViewportMode, CursorLocation), the operations built on  *)
(* them (parent_to, modify_mesh, apply_modifiers), garbage_collect and     *)
(* group_in_collection, run against a small model of the host scene.       *)
(***************************************************************************)
EXTENDS Integers, Sequences, FiniteSets, TLC

\* ------------------------------------------------------------------ bounds
NObj == 2
ScopeDepth == 1
MaxDepth == 2
MaxMods == 1
NGroupObj == 3

\* Python's None, for an object reference that names no object.
None == 0

Objs == 1..NObj
Modes == {"OBJECT", "EDIT"}
\* Sample 3D points the cursor can be at.
Locations == {<<0, 0, 0>>, <<1, 0, 0>>}
HostErrors == {"RuntimeError", "TypeError"}
NoError == "none"

VARIABLES
    objects,    \* bpy.data.objects: the objects that exist
    selected,   \* bpy.context.selected_objects
    active,     \* bpy.context.view_layer.objects.active (None: no active object)
    mode,       \* obj.mode of every object
    cursor,     \* the value stored in bpy.context.scene.cursor.location
    stack,      \* the open `with` scopes, innermost last
    exc,        \* the exception propagating out of the innermost scope body
    raised,     \* history: the exception as the host raised it
    event,      \* history: the scope entered or exited by the last step
    outer,      \* history: the UI state when the outermost open scope was entered
    parent,     \* obj.parent of every object (None: no parent)
    otype,      \* obj.type of every object
    modifiers,  \* obj.modifiers of every object, a list
    applied,    \* the modifier types applied to every object's data so far
    call,       \* history: the last call of an operation, and how it ended
    D,          \* bpy.data: the object and mesh blocks, by name
    gc,         \* the open GarbageCollect scope, if any
    gobjects,   \* the objects of the scene whose collections are modelled
    children,   \* obj.children of each of them
    collections, \* bpy.data.collections, by name
    links       \* <<c, o>>: object o is in c.objects

sceneVars == <<parent, otype, modifiers, applied>>
dataVars == <<D, gc, gobjects, children, collections, links>>
others == <<sceneVars, dataVars, call>>
vars == <<objects, selected, active, mode, cursor, stack, exc, raised, event, outer,
          parent, otype, modifiers, applied, call, D, gc,
          gobjects, children, collections, links>>

ObjTypes == {"MESH", "CURVE"}
ModTypes == {"SUBSURF", "MULTIRES"}
NoCall == [op |-> "none"]

\* Names of data blocks; the same name may be an object's and a mesh's.
ObjNames == {"Cube", "Rig (no gc)"}
MeshNames == {"Cube", "Rock"}
\* The names '(no gc)' is a substring of.
NoGcTagged == {"Rig (no gc)"}
NoData == "None"
NoScope == [open |-> FALSE]

GObjs == 1..NGroupObj
\* bpy.context.scene.collection, which is not one of bpy.data.collections.
SceneCollection == "Scene Collection"
GroupName == "grp"
\* The name the host gives a second collection asked for under a taken name.
Renamed == "grp.001"

\* ------------------------------------------------------- host UI operations
\* The part of the host context the selection helpers read and write.
Ctx == [objects |-> objects, selected |-> selected, active |-> active]

\* select_none(): deselect the active object, then every selected object.
select_none(c) ==
    LET s1 == IF c.active # None THEN c.selected \ {c.active} ELSE c.selected
    IN  [c EXCEPT !.selected = s1 \ s1]

\* select(objs): select_none(), then select_set(True) on every member.
select(c, objs) ==
    LET c1 == select_none(c)
    IN  [c1 EXCEPT !.selected = c1.selected \cup objs]

\* delete(objs): select exactly objs and run the host's delete operator, which
\* removes the selected objects; a deleted active object leaves no active one.
delete(c, objs) ==
    LET c1 == select(select_none(c), objs)
    IN  [objects  |-> c1.objects \ c1.selected,
         selected |-> {},
         active   |-> IF c1.active \in c1.selected THEN None ELSE c1.active]

\* ------------------------------------------------------------ SelectObjects
\* objects[active] for an integer `active`, the given object otherwise.
ActiveOf(objs, act) == IF act.isint THEN objs[act.v + 1] ELSE act.v

Range(s) == {s[i] : i \in DOMAIN s}

\* SelectObjects.__enter__: the context after it, and what it saved.
SelectObjects_enter(c, objs, act) ==
    LET c1 == select(select_none(c), Range(objs))
    IN  [ctx           |-> IF Len(objs) # 0
                           THEN [c1 EXCEPT !.active = ActiveOf(objs, act)]
                           ELSE c1,
         saved_objects |-> c.selected,
         saved_active  |-> c.active]

enforce_not_deleted_nocheck(c, o) == o

\* enforce_not_deleted(o): o while it is still in bpy.data.objects, else None.
enforce_not_deleted(c, o) == IF o \in c.objects THEN o ELSE None

\* SelectObjects.__exit__: reselect the saved objects that still exist, and
\* set the active object back when one was saved.
SelectObjects_exit(c, saved_objects, saved_active) ==
    LET kept == {o \in saved_objects : enforce_not_deleted(c, o) # None}
        c1   == select(select_none(c), kept)
    IN  IF saved_active # None
        THEN [c1 EXCEPT !.active = enforce_not_deleted(c, saved_active)]
        ELSE c1

\* What a context manager's __exit__ returning `ret` makes of a pending
\* exception: a true value swallows it, anything else lets it propagate.
\* Every __exit__ here falls off its end and so returns None.
ExitReturn == FALSE
WithExit(ret, e) == IF ret THEN NoError ELSE e

\* ------------------------------------------------------------- ViewportMode
\* bpy.ops.object.mode_set(mode=m): the active object changes mode.
mode_set(act, md, m) == IF act # None THEN [md EXCEPT ![act] = m] ELSE md

\* ViewportMode.__enter__
ViewportMode_enter(act, md, obj, m) ==
    [active      |-> obj,
     mode        |-> mode_set(obj, md, m),
     orig_active |-> act,
     orig_mode   |-> md[obj]]

ViewportMode_exit_keepactive(act, md, obj, orig_active, orig_mode) ==
    [active |-> obj, mode |-> mode_set(obj, md, orig_mode)]

\* ViewportMode.__exit__
ViewportMode_exit(act, md, obj, orig_active, orig_mode) ==
    [active |-> orig_active, mode |-> mode_set(obj, md, orig_mode)]

\* ----------------------------------------------------------- CursorLocation
\* A Python value holding a location: a vector of its own, or the vector the
\* host hands out for scene.cursor.location, which reads the cursor each time
\* it is read.
OwnVector(v) == [ref |-> FALSE, val |-> v]
CursorRef == [ref |-> TRUE, val |-> <<0, 0, 0>>]
ReadVector(pv, cur) == IF pv.ref THEN cur ELSE pv.val

\* CursorLocation.__enter__: saved is what the attribute read returned.
CursorLocation_enter(cur, loc) ==
    [cursor |-> ReadVector(OwnVector(loc), cur), saved |-> CursorRef]

\* CursorLocation.__exit__: assign the saved value back.
CursorLocation_exit(cur, saved) == ReadVector(saved, cur)

\* ---------------------------------------------------------------- parent_to
\* The objects reached from o by following .parent up to n times.
RECURSIVE AncestorsN(_, _, _)
AncestorsN(par, o, n) ==
    IF n = 0 \/ par[o] = None THEN {}
    ELSE {par[o]} \cup AncestorsN(par, par[o], n - 1)
Ancestors(par, o) == AncestorsN(par, o, NObj)

\* bpy.ops.object.parent_set / parent_no_inverse_set: every selected object
\* other than the active one gets the active object as parent. The host
\* refuses (an error report, RuntimeError in Python) when there is no active
\* object or when a child is an ancestor of the active object.
parent_set(c, par) ==
    LET kids == c.selected \ {c.active}
        bad  == c.active = None \/ \E k \in kids : k \in Ancestors(par, c.active)
    IN  [err    |-> bad,
         parent |-> IF bad THEN par
                    ELSE [o \in Objs |-> IF o \in kids THEN c.active ELSE par[o]]]

\* parent_to(a, b, no_inverse): select_none(), then inside
\* SelectObjects([a, b], active=1) the parenting operator no_inverse chooses
\* (the two differ only in the child's inverse matrix), then the assertion
\* a.parent is b. The result is the context and parents afterwards, how the
\* call ended, and what was selected and active when the operator ran.
parent_to(c, par, a, b, no_inverse) ==
    LET c0 == select_none(c)
        r  == SelectObjects_enter(c0, <<a, b>>, [isint |-> TRUE, v |-> 1])
        p  == parent_set(r.ctx, par)
        c2 == SelectObjects_exit(r.ctx, r.saved_objects, r.saved_active)
    IN  [ctx         |-> c2,
         parent      |-> p.parent,
         operator    |-> IF no_inverse THEN "parent_no_inverse_set" ELSE "parent_set",
         op_selected |-> r.ctx.selected,
         op_active   |-> r.ctx.active,
         outcome     |-> IF WithExit(ExitReturn, IF p.err THEN "RuntimeError" ELSE NoError) # NoError
                         THEN "RuntimeError"
                         ELSE IF p.parent[a] = b THEN "returned" ELSE "AssertionError"]

\* ----------------------------------------------- modify_mesh, apply_modifiers
\* Whether an object of type ot takes a modifier of type mt.
Supports(ot, mt) == ot = "MESH" \/ mt = "SUBSURF"

NoModifier == [type |-> "None", show_viewport |-> FALSE]

\* obj.modifiers.new(name, type): the new modifier, or None when the object
\* type does not take it.
modifiers_new(ot, mt) ==
    IF Supports(ot, mt) THEN [type |-> mt, show_viewport |-> TRUE] ELSE NoModifier

\* apply_modifiers(obj, mod=m): inside SelectObjects(obj), modifier_apply takes
\* the modifier (the last of the list here) off the list and into the data.
apply_modifiers(c, mods, app, obj) ==
    LET r  == SelectObjects_enter(c, <<obj>>, [isint |-> TRUE, v |-> 0])
        m  == mods[obj][Len(mods[obj])]
        c2 == SelectObjects_exit(r.ctx, r.saved_objects, r.saved_active)
    IN  [ctx       |-> c2,
         modifiers |-> [mods EXCEPT ![obj] = SubSeq(@, 1, Len(@) - 1)],
         applied   |-> [app EXCEPT ![obj] = @ \cup {m.type}]]

\* modify_mesh(obj, type, apply, show_viewport): statement by statement.
\* show_viewport is "None" (the default: not apply), "True" or "False".
modify_mesh(c, ot, mods, app, obj, mt, apply, show_viewport) ==
    LET sv   == IF show_viewport = "None" THEN ~apply ELSE show_viewport = "True"
        mod  == modifiers_new(ot[obj], mt)
        same == [ctx |-> c, modifiers |-> mods, applied |-> app]
        \* mod.show_viewport = show_viewport: an attribute assignment, which
        \* Python refuses on None
        set  == IF mod = NoModifier THEN "AttributeError" ELSE NoError
    IN  IF set # NoError
        THEN same @@ [outcome |-> set, new_none |-> mod = NoModifier]
        ELSE IF mod = NoModifier  \* if mod is None: raise ValueError(...)
        THEN same @@ [outcome |-> "ValueError", new_none |-> TRUE]
        ELSE LET m1 == [mods EXCEPT ![obj] = Append(@, [mod EXCEPT !.show_viewport = sv])]
             IN  IF apply
                 THEN apply_modifiers(c, m1, app, obj)
                          @@ [outcome |-> "returned", new_none |-> FALSE]
                 ELSE [ctx |-> c, modifiers |-> m1, applied |-> app,
                       outcome |-> "returned", new_none |-> FALSE]

\* ----------------------------------------------------------- garbage_collect
\* get_all_bpy_data_targets(): of its eight collections the two modelled, in
\* its order.
get_all_bpy_data_targets == <<"objects", "meshes">>

\* The blocks of target t.
Blocks(d, t) == IF t = "objects" THEN d.objects ELSE d.meshes

\* o.users: an object is used by the scene it is linked to, a mesh by every
\* object whose data it is.
users(d, t, n) ==
    IF t = "objects" THEN (IF n \in d.linked THEN 1 ELSE 0)
    ELSE Cardinality({o \in d.objects : d.data[o] = n})

\* t.remove(o): the block goes. Removing a mesh also deletes the objects whose
\* data it is, as the host documents.
remove(d, t, n) ==
    LET gone == IF t = "objects" THEN {n} ELSE {o \in d.objects : d.data[o] = n}
    IN  [objects |-> d.objects \ gone,
         meshes  |-> IF t = "objects" THEN d.meshes ELSE d.meshes \ {n},
         data    |-> [o \in ObjNames |-> IF o \in gone THEN NoData ELSE d.data[o]],
         linked  |-> d.linked \ gone]

\* The three reasons the collector passes a block over.
kept_nogc_ignored(d, t, n, keep_in_use, orig) ==
    \/ keep_in_use /\ users(d, t, n) > 0
    \/ n \in orig

kept(d, t, n, keep_in_use, orig) ==
    \/ keep_in_use /\ users(d, t, n) > 0
    \/ n \in orig
    \/ n \in NoGcTagged

\* for o in t: ... t.remove(o), over the blocks of t still to visit. The
\* result is the data and the log of the remove calls: the block and its
\* users when visited.
RECURSIVE gc_target(_, _, _, _, _, _)
gc_target(d, t, todo, keep_in_use, orig, log) ==
    IF todo = {} THEN [d |-> d, log |-> log]
    ELSE LET n == CHOOSE x \in todo : TRUE
         IN  IF n \notin Blocks(d, t) \/ kept(d, t, n, keep_in_use, orig)
             THEN gc_target(d, t, todo \ {n}, keep_in_use, orig, log)
             ELSE gc_target(remove(d, t, n), t, todo \ {n}, keep_in_use, orig,
                            log \cup {[target |-> t, name |-> n,
                                       users |-> users(d, t, n)]})

Min(a, b) == IF a < b THEN a ELSE b

\* for t, orig in zip(targets, keep_names), from pair i on.
RECURSIVE gc_zip(_, _, _, _, _, _)
gc_zip(d, targets, keep_names, keep_in_use, i, log) ==
    IF i > Min(Len(targets), Len(keep_names)) THEN [d |-> d, log |-> log]
    ELSE LET r == gc_target(d, targets[i], Blocks(d, targets[i]), keep_in_use,
                            keep_names[i], log)
         IN  gc_zip(r.d, targets, keep_names, keep_in_use, i + 1, r.log)

\* garbage_collect(targets, keep_in_use, keep_names): keep_names None stands
\* for an empty list per target.
garbage_collect(d, targets, keep_in_use, keep_names) ==
    LET kn == IF keep_names.none THEN [i \in 1..Len(targets) |-> {}]
              ELSE keep_names.list
    IN  gc_zip(d, targets, kn, keep_in_use, 1, {})

\* GarbageCollect.__enter__: the names in every target.
GarbageCollect_enter(d, targets) == [i \in 1..Len(targets) |-> Blocks(d, targets[i])]

\* GarbageCollect.__exit__: collect, keeping the names recorded at entry.
GarbageCollect_exit(d, targets, keep_in_use, names) ==
    garbage_collect(d, targets, keep_in_use, [none |-> FALSE, list |-> names])

\* ------------------------------------------------------- group_in_collection
\* get_collection(name, reuse): the collection of that name when reuse is set
\* and there is one, a new collection otherwise, which the host names `name`
\* or, that being taken, Renamed.
get_collection(cs, name, reuse) ==
    IF reuse /\ name \in cs
    THEN [col |-> name, collections |-> cs]
    ELSE LET new == IF name \in cs THEN Renamed ELSE name
         IN  [col |-> new, collections |-> cs \cup {new}]

\* unlink(obj): out of every collection of bpy.data.collections and out of
\* the scene collection.
unlink(lk, cs, o) == lk \ {<<c, o>> : c \in cs \cup {SceneCollection}}

put_in_collection_keeplinks(lk, cs, o, col, exclusive) ==
    [err |-> <<col, o>> \in lk, links |-> lk \cup {<<col, o>>}]

\* put_in_collection(obj, collection, exclusive): unlink when exclusive, then
\* collection.objects.link(obj), which the host refuses (RuntimeError) for an
\* object already in that collection.
put_in_collection(lk, cs, o, col, exclusive) ==
    LET l1 == IF exclusive THEN unlink(lk, cs, o) ELSE lk
    IN  [err |-> <<col, o>> \in l1, links |-> l1 \cup {<<col, o>>}]

RECURSIVE SetToSeq(_)
SetToSeq(S) ==
    IF S = {} THEN <<>>
    ELSE LET x == CHOOSE y \in S : \A z \in S : y <= z
         IN  <<x>> \o SetToSeq(S \ {x})

\* traverse_children(obj, fn): the objects fn is called on, in order: obj,
\* then each of obj.children.
traverse_children(ch, o) == <<o>> \o SetToSeq(ch[o])

\* An entry of objs: None, an object, or a list of objects.
NoneItem == [kind |-> "None", objs |-> <<>>]
ObjItem(o) == [kind |-> "object", objs |-> <<o>>]
ListItem(l) == [kind |-> "list", objs |-> l]

\* The objects put_in_collection is called on, in order, for all of objs.
RECURSIVE Visits(_, _)
Visits(ch, objs) ==
    IF objs = <<>> THEN <<>>
    ELSE LET item == Head(objs)
             RECURSIVE OfList(_)
             OfList(l) == IF l = <<>> THEN <<>>
                          ELSE traverse_children(ch, Head(l)) \o OfList(Tail(l))
         IN  (IF item.kind = "None" THEN <<>> ELSE OfList(item.objs))
                 \o Visits(ch, Tail(objs))

\* put_in_collection on each of todo in turn, up to the first the host refuses.
RECURSIVE put_each(_, _, _, _, _)
put_each(lk, cs, todo, col, exclusive) ==
    IF todo = <<>> THEN [err |-> FALSE, links |-> lk]
    ELSE LET r == put_in_collection(lk, cs, Head(todo), col, exclusive)
         IN  IF r.err THEN [err |-> TRUE, links |-> lk]
             ELSE put_each(r.links, cs, Tail(todo), col, exclusive)

\* group_in_collection(objs, name, reuse, exclusive=...)
group_in_collection(lk, cs, ch, objs, name, reuse, exclusive) ==
    LET g == get_collection(cs, name, reuse)
        r == put_each(lk, g.collections, Visits(ch, objs), g.col, exclusive)
    IN  [collections |-> g.collections,
         links       |-> r.links,
         col         |-> g.col,
         outcome     |-> IF r.err THEN "RuntimeError" ELSE "returned"]

\* ------------------------------------------------------------------- scopes
NoFrame ==
    [kind |-> "none", saved_objects |-> {}, saved_active |-> None,
     obj |-> None, orig_active |-> None,
     orig_mode |-> "OBJECT", loc |-> <<0, 0, 0>>, saved |-> CursorRef,
     entry_selected |-> {}, entry_active |-> None, entry_mode |-> "OBJECT",
     entry_cursor |-> <<0, 0, 0>>]

\* An event: the scope entered or left, and for ViewportMode the mode asked for.
NoEvent == [type |-> "none", frame |-> NoFrame, arg_mode |-> "OBJECT"]
Entered(f, m) == [type |-> "enter", frame |-> f, arg_mode |-> m]
Exited(f) == [type |-> "exit", frame |-> f, arg_mode |-> "OBJECT"]
Snapshot == [selected |-> selected, active |-> active, mode |-> mode, cursor |-> cursor]
NoSnapshot == [selected |-> {}, active |-> None, mode |-> [o \in Objs |-> "OBJECT"],
               cursor |-> <<0, 0, 0>>]

Top == stack[Len(stack)]
Pop == SubSeq(stack, 1, Len(stack) - 1)

\* The argument lists SelectObjects is called with: no object, one object
\* (as apply_transform does), or two with either made active (as parent_to).
ObjectLists ==
    {<<>>} \cup {<<a>> : a \in objects}
           \cup {p \in objects \X objects : p[1] # p[2]}
ActiveArgs(objs) ==
    {[isint |-> TRUE, v |-> i - 1] : i \in DOMAIN objs}
        \cup {[isint |-> FALSE, v |-> o] : o \in Range(objs)}
        \cup (IF objs = <<>> THEN {[isint |-> TRUE, v |-> 0]} ELSE {})

\* with SelectObjects(objs, act): entering
EnterSelect(depth, objs, act) ==
    /\ exc = NoError
    /\ Len(stack) < depth
    /\ LET r == SelectObjects_enter(Ctx, objs, act)
           f == [NoFrame EXCEPT !.kind = "SelectObjects",
                                !.saved_objects = r.saved_objects,
                                !.saved_active = r.saved_active,
                                !.entry_selected = selected,
                                !.entry_active = active]
       IN  /\ selected' = r.ctx.selected
           /\ active' = r.ctx.active
           /\ stack' = Append(stack, f)
           /\ event' = Entered(f, "OBJECT")
           /\ outer' = IF stack = <<>> THEN Snapshot ELSE outer
    /\ UNCHANGED <<others, objects, mode, cursor, exc, raised>>

\* leaving the innermost scope, a SelectObjects, normally or with an
\* exception on its way out
ExitSelect ==
    /\ stack # <<>>
    /\ Top.kind = "SelectObjects"
    /\ LET c == SelectObjects_exit(Ctx, Top.saved_objects, Top.saved_active)
       IN  /\ selected' = c.selected
           /\ active' = c.active
    /\ exc' = WithExit(ExitReturn, exc)
    /\ stack' = Pop
    /\ event' = Exited(Top)
    /\ UNCHANGED <<others, objects, mode, cursor, raised, outer>>

\* with ViewportMode(obj, m): entering
EnterViewport(depth, obj, m) ==
    /\ exc = NoError
    /\ Len(stack) < depth
    /\ obj \in objects
    /\ LET r == ViewportMode_enter(active, mode, obj, m)
           f == [NoFrame EXCEPT !.kind = "ViewportMode",
                                !.obj = obj,
                                !.orig_active = r.orig_active,
                                !.orig_mode = r.orig_mode,
                                !.entry_active = active,
                                !.entry_mode = mode[obj]]
       IN  /\ active' = r.active
           /\ mode' = r.mode
           /\ stack' = Append(stack, f)
           /\ event' = Entered(f, m)
           /\ outer' = IF stack = <<>> THEN Snapshot ELSE outer
    /\ UNCHANGED <<others, objects, selected, cursor, exc, raised>>

ExitViewport ==
    /\ stack # <<>>
    /\ Top.kind = "ViewportMode"
    /\ LET r == ViewportMode_exit(active, mode, Top.obj, Top.orig_active, Top.orig_mode)
       IN  /\ active' = r.active
           /\ mode' = r.mode
    /\ exc' = WithExit(ExitReturn, exc)
    /\ stack' = Pop
    /\ event' = Exited(Top)
    /\ UNCHANGED <<others, objects, selected, cursor, raised, outer>>

\* with CursorLocation(loc): entering
EnterCursor(depth, loc) ==
    /\ exc = NoError
    /\ Len(stack) < depth
    /\ LET r == CursorLocation_enter(cursor, loc)
           f == [NoFrame EXCEPT !.kind = "CursorLocation",
                                !.loc = loc,
                                !.saved = r.saved,
                                !.entry_cursor = cursor]
       IN  /\ cursor' = r.cursor
           /\ stack' = Append(stack, f)
           /\ event' = Entered(f, "OBJECT")
           /\ outer' = IF stack = <<>> THEN Snapshot ELSE outer
    /\ UNCHANGED <<others, objects, selected, active, mode, exc, raised>>

ExitCursor ==
    /\ stack # <<>>
    /\ Top.kind = "CursorLocation"
    /\ cursor' = CursorLocation_exit(cursor, Top.saved)
    /\ exc' = WithExit(ExitReturn, exc)
    /\ stack' = Pop
    /\ event' = Exited(Top)
    /\ UNCHANGED <<others, objects, selected, active, mode, raised, outer>>

\* ----------------------------------------- what a scope body (or a caller) does
\* obj.select_set(b)
UserSelect(o, b) ==
    /\ exc = NoError
    /\ o \in objects
    /\ selected' = IF b THEN selected \cup {o} ELSE selected \ {o}
    /\ event' = NoEvent
    /\ call' = NoCall
    /\ UNCHANGED <<sceneVars, dataVars, objects, active, mode, cursor, stack, exc, raised, outer>>

\* bpy.context.view_layer.objects.active = a
UserSetActive(a) ==
    /\ exc = NoError
    /\ a \in objects \cup {None}
    /\ active' = a
    /\ event' = NoEvent
    /\ call' = NoCall
    /\ UNCHANGED <<sceneVars, dataVars, objects, selected, mode, cursor, stack, exc, raised, outer>>

\* delete(o)
UserDelete(o) ==
    /\ exc = NoError
    /\ o \in objects
    /\ LET c == delete(Ctx, {o})
       IN  /\ objects' = c.objects
           /\ selected' = c.selected
           /\ active' = c.active
    /\ event' = NoEvent
    /\ call' = NoCall
    /\ UNCHANGED <<sceneVars, dataVars, mode, cursor, stack, exc, raised, outer>>

\* bpy.ops.object.mode_set(mode=m)
UserModeSet(m) ==
    /\ exc = NoError
    /\ active # None
    /\ mode' = mode_set(active, mode, m)
    /\ event' = NoEvent
    /\ call' = NoCall
    /\ UNCHANGED <<sceneVars, dataVars, objects, selected, active, cursor, stack, exc, raised, outer>>

\* bpy.context.scene.cursor.location = v
UserMoveCursor(v) ==
    /\ exc = NoError
    /\ cursor' = v
    /\ event' = NoEvent
    /\ call' = NoCall
    /\ UNCHANGED <<sceneVars, dataVars, objects, selected, active, mode, stack, exc, raised, outer>>

\* A host operator called in a scope body (transform_apply, modifier_apply,
\* origin_set) fails: the host's exception starts to propagate.
HostOpRaises(e) ==
    /\ exc = NoError
    /\ stack # <<>>
    /\ exc' = e
    /\ raised' = e
    /\ event' = NoEvent
    /\ UNCHANGED <<others, objects, selected, active, mode, cursor, stack, outer>>

\* The exception has left the outermost scope: the caller has it.
CallerSees ==
    /\ exc # NoError
    /\ stack = <<>>
    /\ exc' = NoError
    /\ raised' = NoError
    /\ event' = NoEvent
    /\ UNCHANGED <<others, objects, selected, active, mode, cursor, stack, outer>>

\* a call of parent_to(a, b) on two distinct existing objects
ParentTo(a, b, no_inverse) ==
    /\ a \in objects /\ b \in objects /\ a # b
    /\ LET r == parent_to(Ctx, parent, a, b, no_inverse)
       IN  /\ selected' = r.ctx.selected
           /\ active' = r.ctx.active
           /\ parent' = r.parent
           /\ call' = [op |-> "parent_to", a |-> a, b |-> b,
                       pre_selected |-> selected, pre_active |-> active,
                       operator |-> r.operator,
                       op_selected |-> r.op_selected, op_active |-> r.op_active,
                       outcome |-> r.outcome]
    /\ UNCHANGED <<objects, mode, cursor, stack, exc, raised, event, outer,
                   otype, modifiers, applied, dataVars>>

\* obj.parent = None
ClearParent(o) ==
    /\ parent[o] # None
    /\ parent' = [parent EXCEPT ![o] = None]
    /\ call' = NoCall
    /\ UNCHANGED <<objects, selected, active, mode, cursor, stack, exc, raised,
                   event, outer, otype, modifiers, applied, dataVars>>

\* a call of modify_mesh(obj, type, apply=..., show_viewport=...)
ModifyMesh(obj, mt, apply, show_viewport) ==
    /\ obj \in objects
    /\ Len(modifiers[obj]) < MaxMods
    /\ LET r == modify_mesh(Ctx, otype, modifiers, applied, obj, mt, apply, show_viewport)
       IN  /\ selected' = r.ctx.selected
           /\ active' = r.ctx.active
           /\ modifiers' = r.modifiers
           /\ applied' = r.applied
           /\ call' = [op |-> "modify_mesh", obj |-> obj, type |-> mt,
                       new_none |-> r.new_none, outcome |-> r.outcome,
                       pre_modifiers |-> modifiers, pre_applied |-> applied]
    /\ UNCHANGED <<objects, mode, cursor, stack, exc, raised, event, outer,
                   parent, otype, dataVars>>

\* ---------------------------------------------------- what happens to bpy.data
collVars == <<gobjects, children, collections, links>>
sceneUnchanged ==
    UNCHANGED <<objects, selected, active, mode, cursor, stack, exc, raised,
                event, outer, sceneVars>>

\* bpy.data.meshes.new(name)
NewMesh(m) ==
    /\ m \notin D.meshes
    /\ D' = [D EXCEPT !.meshes = @ \cup {m}]
    /\ call' = NoCall
    /\ UNCHANGED <<gc, collVars>> /\ sceneUnchanged

\* bpy.data.objects.new(name, mesh), linked to the scene collection
NewObject(o, m) ==
    /\ o \notin D.objects
    /\ m \in D.meshes \cup {NoData}
    /\ D' = [D EXCEPT !.objects = @ \cup {o}, !.data[o] = m, !.linked = @ \cup {o}]
    /\ call' = NoCall
    /\ UNCHANGED <<gc, collVars>> /\ sceneUnchanged

\* collection.objects.unlink(obj): the object is in no collection any more
UnlinkObject(o) ==
    /\ o \in D.linked
    /\ D' = [D EXCEPT !.linked = @ \ {o}]
    /\ call' = NoCall
    /\ UNCHANGED <<gc, collVars>> /\ sceneUnchanged

\* obj.data = mesh
SetData(o, m) ==
    /\ o \in D.objects
    /\ m \in D.meshes
    /\ D.data[o] # m
    /\ D' = [D EXCEPT !.data[o] = m]
    /\ call' = NoCall
    /\ UNCHANGED <<gc, collVars>> /\ sceneUnchanged

\* The lists garbage_collect is given: targets, and for keep_names None or
\* a list (as long as targets, or shorter) of sets of names, here names
\* without the '(no gc)' tag, which protects a block by itself.
TargetLists == {get_all_bpy_data_targets, <<"objects">>, <<"meshes">>}
NamesOf(t) == (IF t = "objects" THEN ObjNames ELSE MeshNames) \ NoGcTagged
KeepLists(targets) ==
    {[none |-> TRUE, list |-> <<>>]}
        \cup {[none |-> FALSE, list |-> l] :
                l \in {k \in UNION {[1..n -> SUBSET (ObjNames \cup MeshNames)] : n \in 1..Len(targets)} :
                         \A i \in DOMAIN k : k[i] \subseteq NamesOf(targets[i])}}

\* a call of garbage_collect(targets, keep_in_use, keep_names)
GarbageCollectCall(targets, keep_in_use, keep_names) ==
    /\ LET r == garbage_collect(D, targets, keep_in_use, keep_names)
       IN  /\ D' = r.d
           /\ call' = [op |-> "garbage_collect", targets |-> targets,
                       keep_in_use |-> keep_in_use,
                       keep_names |-> IF keep_names.none
                                      THEN [i \in 1..Len(targets) |-> {}]
                                      ELSE keep_names.list,
                       log |-> r.log, pre |-> D]
    /\ UNCHANGED <<gc, collVars>> /\ sceneUnchanged

\* with GarbageCollect(): entering, with the default targets and keep_in_use
EnterGC ==
    /\ ~gc.open
    /\ gc' = [open |-> TRUE, targets |-> get_all_bpy_data_targets, keep_in_use |-> TRUE,
              names |-> GarbageCollect_enter(D, get_all_bpy_data_targets)]
    /\ call' = NoCall
    /\ UNCHANGED <<D, collVars>> /\ sceneUnchanged

ExitGC ==
    /\ gc.open
    /\ LET r == GarbageCollect_exit(D, gc.targets, gc.keep_in_use, gc.names)
       IN  /\ D' = r.d
           /\ call' = [op |-> "GarbageCollect", targets |-> gc.targets,
                       keep_in_use |-> gc.keep_in_use, keep_names |-> gc.names,
                       log |-> r.log, pre |-> D]
    /\ gc' = NoScope
    /\ UNCHANGED collVars /\ sceneUnchanged

\* ------------------------------------------------ collections and their objects
groupUnchanged ==
    UNCHANGED <<objects, selected, active, mode, cursor, stack, exc, raised,
                event, outer, sceneVars, D, gc, gobjects>>

\* The objs arguments group_in_collection is called with.
GroupInputs ==
    {<<ObjItem(a)>> : a \in gobjects}
        \cup {<<NoneItem, ObjItem(a)>> : a \in gobjects}
        \cup {<<ListItem(<<p[1], p[2]>>)>> : p \in {q \in gobjects \X gobjects : q[1] < q[2]}}

\* a call of group_in_collection(objs, name, reuse=..., exclusive=...)
GroupInCollection(objs, name, reuse, exclusive) ==
    /\ (reuse /\ name \in collections) \/ Renamed \notin collections
    /\ LET r == group_in_collection(links, collections, children, objs, name, reuse, exclusive)
           given == UNION {Range(objs[i].objs) : i \in DOMAIN objs}
       IN  /\ collections' = r.collections
           /\ links' = r.links
           /\ call' = [op |-> "group_in_collection", given |-> given,
                       name |-> name, reuse |-> reuse, exclusive |-> exclusive,
                       col |-> r.col, outcome |-> r.outcome,
                       pre_links |-> links, pre_collections |-> collections]
    /\ UNCHANGED children /\ groupUnchanged

\* c.objects.link(o), for an object not in c yet
UserLink(c, o) ==
    /\ c \in collections \cup {SceneCollection}
    /\ <<c, o>> \notin links
    /\ links' = links \cup {<<c, o>>}
    /\ call' = NoCall
    /\ UNCHANGED <<children, collections>> /\ groupUnchanged

\* ------------------------------------------------------------ specifications
InitScene ==
    /\ objects = Objs
    /\ selected = {}
    /\ active = None
    /\ mode = [o \in Objs |-> "OBJECT"]
    /\ cursor = <<0, 0, 0>>
    /\ stack = <<>>
    /\ exc = NoError
    /\ raised = NoError
    /\ event = NoEvent
    /\ outer = NoSnapshot
    /\ parent = [o \in Objs |-> None]
    /\ modifiers = [o \in Objs |-> <<>>]
    /\ applied = [o \in Objs |-> {}]
    /\ call = NoCall
    /\ D = [objects |-> {}, meshes |-> {}, data |-> [o \in ObjNames |-> NoData],
            linked |-> {}]
    /\ gc = NoScope
    /\ gobjects = GObjs
    /\ collections = {}
    /\ links = {<<SceneCollection, o>> : o \in GObjs}

Init ==
    /\ InitScene
    /\ otype = [o \in Objs |-> "MESH"]
    /\ children = [o \in GObjs |-> {}]

\* SelectObjects scopes around arbitrary selection changes, deletions and
\* failing host operators.
Next ==
    \/ \E o \in Objs, b \in BOOLEAN : UserSelect(o, b)
    \/ \E a \in Objs \cup {None} : UserSetActive(a)
    \/ \E o \in Objs : UserDelete(o)
    \/ \E objs \in ObjectLists : \E act \in ActiveArgs(objs) : EnterSelect(ScopeDepth, objs, act)
    \/ ExitSelect
    \/ \E e \in HostErrors : HostOpRaises(e)
    \/ CallerSees

Spec == Init /\ [][Next]_vars

\* ViewportMode scopes around arbitrary changes of active object and mode.
NextViewport ==
    \/ \E a \in Objs \cup {None} : UserSetActive(a)
    \/ \E m \in Modes : UserModeSet(m)
    \/ \E o \in Objs, m \in Modes : EnterViewport(ScopeDepth, o, m)
    \/ ExitViewport

SpecViewport == Init /\ [][NextViewport]_vars

\* CursorLocation scopes around arbitrary cursor moves.
NextCursor ==
    \/ \E v \in Locations : UserMoveCursor(v)
    \/ \E v \in Locations : EnterCursor(MaxDepth, v)
    \/ ExitCursor

SpecCursor == Init /\ [][NextCursor]_vars

\* Any UI state, then properly nested scopes of the three kinds and nothing else.
NextNested ==
    \/ stack = <<>> /\ \E o \in Objs, b \in BOOLEAN : UserSelect(o, b)
    \/ stack = <<>> /\ \E a \in Objs \cup {None} : UserSetActive(a)
    \/ stack = <<>> /\ \E m \in Modes : UserModeSet(m)
    \/ stack = <<>> /\ \E v \in Locations : UserMoveCursor(v)
    \/ \E objs \in ObjectLists : \E act \in ActiveArgs(objs) : EnterSelect(MaxDepth, objs, act)
    \/ \E o \in Objs, m \in Modes : EnterViewport(MaxDepth, o, m)
    \/ \E v \in Locations : EnterCursor(MaxDepth, v)
    \/ ExitSelect
    \/ ExitViewport
    \/ ExitCursor

SpecNested == Init /\ [][NextNested]_vars

\* Calls of parent_to between arbitrary changes of selection and active object.
NextParent ==
    \/ \E o \in Objs, b \in BOOLEAN : UserSelect(o, b)
    \/ \E a \in Objs \cup {None} : UserSetActive(a)
    \/ \E a \in Objs, b \in Objs, ni \in BOOLEAN : ParentTo(a, b, ni)
    \/ \E o \in Objs : ClearParent(o)

SpecParent == Init /\ [][NextParent]_vars

\* Calls of modify_mesh on objects of every type.
InitModify ==
    /\ InitScene
    /\ otype \in [Objs -> ObjTypes]
    /\ children = [o \in GObjs |-> {}]

NextModify ==
    \/ \E o \in Objs, b \in BOOLEAN : UserSelect(o, b)
    \/ \E a \in Objs \cup {None} : UserSetActive(a)
    \/ \E o \in Objs, mt \in ModTypes, ap \in BOOLEAN, sv \in {"None", "True", "False"} :
           ModifyMesh(o, mt, ap, sv)

SpecModify == InitModify /\ [][NextModify]_vars

\* Blocks made, linked and unlinked, and collected by garbage_collect or at the
\* exit of a GarbageCollect scope.
NextGC ==
    \/ \E m \in MeshNames : NewMesh(m)
    \/ \E o \in ObjNames, m \in MeshNames \cup {NoData} : NewObject(o, m)
    \/ \E o \in ObjNames : UnlinkObject(o)
    \/ \E o \in ObjNames, m \in MeshNames : SetData(o, m)
    \/ \E ts \in TargetLists, k \in BOOLEAN : \E kn \in KeepLists(ts) :
           GarbageCollectCall(ts, k, kn)
    \/ EnterGC
    \/ ExitGC

SpecGC == Init /\ [][NextGC]_vars

\* Calls of group_in_collection on a scene whose objects are linked and
\* parented in every way.
NextGroup ==
    \/ \E c \in {SceneCollection, GroupName}, o \in GObjs : UserLink(c, o)
    \/ \E objs \in GroupInputs, reuse \in BOOLEAN, exclusive \in BOOLEAN :
           GroupInCollection(objs, GroupName, reuse, exclusive)

\* The scene's parenting: a chain (each object the child of the one before
\* it, the last childless), or a star (every other object a child of the
\* first).
Hierarchies ==
    {[o \in GObjs |-> {o + 1} \cap GObjs],
     [o \in GObjs |-> IF o = 1 THEN GObjs \ {1} ELSE {}]}

InitGroup ==
    /\ InitScene
    /\ otype = [o \in Objs |-> "MESH"]
    /\ children \in Hierarchies

SpecGroup == InitGroup /\ [][NextGroup]_vars

\* ------------------------------------------------------------------- claims
SelectExited == event.type = "exit" /\ event.frame.kind = "SelectObjects"
ViewportExited == event.type = "exit" /\ event.frame.kind = "ViewportMode"
CursorExited == event.type = "exit" /\ event.frame.kind = "CursorLocation"

\* C1: once a SelectObjects scope has exited, the selected objects are exactly
\* the objects that were selected at entry and still exist.
C1_SelectionRestored ==
    SelectExited => selected = event.frame.entry_selected \cap objects

\* A scope has exited whose entry selection lost a member to a deletion in the
\* body and kept another.
C1_Witness ==
    /\ SelectExited
    /\ event.frame.entry_selected \ objects # {}
    /\ event.frame.entry_selected \cap objects # {}
    /\ selected # {}

\* C2: once a SelectObjects scope has exited, the active object is the one
\* active at entry (none if there was none, or if it was deleted in the scope).
C2_ActiveRestored ==
    SelectExited =>
        active = (IF event.frame.entry_active \in objects
                  THEN event.frame.entry_active ELSE None)

\* C3: right after ViewportMode(obj, mode) is entered obj is active and in the
\* requested mode; right after it exits obj is in the mode and the active
\* object is the one from immediately before entry.
C3_ViewportSwitchesAndRestores ==
    /\ (event.type = "enter" /\ event.frame.kind = "ViewportMode") =>
           /\ active = event.frame.obj
           /\ mode[event.frame.obj] = event.arg_mode
    /\ ViewportExited =>
           /\ mode[event.frame.obj] = event.frame.entry_mode
           /\ active = event.frame.entry_active

\* A scope has exited that put obj back into EDIT mode and made another
\* object active again.
C3_Witness ==
    /\ ViewportExited
    /\ event.frame.entry_active \notin {None, event.frame.obj}
    /\ event.frame.entry_mode = "EDIT"

\* C4: inside a CursorLocation(loc) scope the cursor is at loc, and after the
\* scope the cursor is back at its entry location, for entry location # loc.
C4_CursorRestored ==
    /\ (event.type = "enter" /\ event.frame.kind = "CursorLocation") =>
           cursor = event.frame.loc
    /\ (CursorExited /\ event.frame.entry_cursor # event.frame.loc) =>
           cursor = event.frame.entry_cursor

\* C5: a host exception raised in a SelectObjects scope leaves the scope
\* unchanged, with the selection and the active object back at their entry
\* values (no object having been deleted in the scope).
C5_ExceptionPropagatesRestored ==
    (/\ SelectExited
     /\ raised # NoError
     /\ event.frame.entry_selected \subseteq objects
     /\ event.frame.entry_active \in objects \cup {None}) =>
        /\ exc = raised
        /\ selected = event.frame.entry_selected
        /\ active = event.frame.entry_active

\* C7: when the outermost of a properly nested sequence of scopes has exited
\* (no object deleted), selection, active object, modes and cursor are what
\* they were before it was entered.
C7_NestedScopesRestoreAll ==
    (event.type = "exit" /\ stack = <<>>) => Snapshot = outer

\* C6: whenever obj.modifiers.new returns None, modify_mesh ends in ValueError
\* and no modifier has been added, configured or applied.
C6_InvalidModifierIsValueError ==
    (call.op = "modify_mesh" /\ call.new_none) =>
        /\ call.outcome = "ValueError"
        /\ modifiers = call.pre_modifiers
        /\ applied = call.pre_applied

\* C8: parent_to(a, b) runs the parenting operator with exactly a and b
\* selected and b active, never fails its assertion, leaves a parented to b
\* when it returns, and leaves the selection as it was before the call.
C8_ParentToParentsAndRestores ==
    call.op = "parent_to" =>
        /\ call.op_selected = {call.a, call.b}
        /\ call.op_active = call.b
        /\ call.outcome # "AssertionError"
        /\ (call.outcome = "returned" => parent[call.a] = call.b)
        /\ selected = call.pre_selected

\* The blocks of target t that a collection made disappear.
Gone(t) == Blocks(call.pre, t) \ Blocks(D, t)
KeepFor(t) ==
    UNION {call.keep_names[i] : i \in {j \in DOMAIN call.keep_names :
                                          j <= Len(call.targets) /\ call.targets[j] = t}}

CollectionsOf(lk, o) == {c \in collections \cup {SceneCollection} : <<c, o>> \in lk}
\* The objects given to the last call and their direct children.
Moved == call.given \cup UNION {children[o] : o \in call.given}

\* C10: group_in_collection with exclusive=True returns, leaves every given
\* object and every direct child of one in the returned collection and in no
\* other, leaves the links of all other objects alone, and with reuse=True
\* returns the existing collection of that name without making a new one.
C10_GroupMovesExclusively ==
    (call.op = "group_in_collection" /\ call.exclusive) =>
        /\ call.outcome = "returned"
        /\ call.col \in collections
        /\ \A o \in Moved : CollectionsOf(links, o) = {call.col}
        /\ \A o \in gobjects \ Moved :
               CollectionsOf(links, o) = CollectionsOf(call.pre_links, o)
        /\ (call.reuse /\ call.name \in call.pre_collections) =>
               /\ call.col = call.name
               /\ collections = call.pre_collections
        /\ ~(call.reuse /\ call.name \in call.pre_collections) =>
               /\ call.col \notin call.pre_collections
               /\ collections = call.pre_collections \cup {call.col}

\* A call moved an object that was in two collections together with its
\* child, and left its grandchild where it was.
C10_Witness ==
    /\ call.op = "group_in_collection" /\ call.exclusive
    /\ \E o \in call.given :
          /\ Cardinality(CollectionsOf(call.pre_links, o)) >= 2
          /\ \E k \in children[o] : \E g \in children[k] :
                /\ g \notin Moved
                /\ CollectionsOf(links, g) # {call.col}

====
